---- MODULE Spec2Model ----
(***************************************************************************)
(* Model of message/struct_record.go: StructRecord, an adapter that        *)
(* exposes a Go struct through the Record interface (Get / GetKeys /       *)
(* GetVals), with keys taken from a struct tag or from the field names.    *)
(*                                                                         *)
(* Go strings on which the code does string work (field names, tag values, *)
(* keys) are sequences of one-character strings, so that strings.Split is  *)
(* computed and not assumed.  Tag namespaces are only compared with "" and *)
(* with each other and stay TLA+ strings.                                  *)
(***************************************************************************)
EXTENDS Integers, Sequences, FiniteSets, TLC

VARIABLES
    typ,    \* the struct type of the caller's composite
    heap,   \* memory: the caller's composite and what it points to
    pc,     \* "start", then "built" | "failed" | "panicked"
    arg,    \* how NewStructRecord was called: [mode, tagName]
    sr,     \* the StructRecord NewStructRecord returned
    ret     \* what the latest call returned (NoRet once the caller moved on)

vars == <<typ, heap, pc, arg, sr, ret>>

\* Largest integer a field of the caller's struct is ever set to.
MaxVal == 1

----------------------------------------------------------------------------
(* Strings *)

EmptyStr == << >>
Dash == <<"-">>
Comma == ","

\* Index of the first separator in s, or Len(s)+1 when there is none.
IndexOf(s, sep) ==
    CHOOSE i \in 1..(Len(s) + 1) :
        /\ i = Len(s) + 1 \/ s[i] = sep
        /\ \A j \in 1..(i - 1) : s[j] # sep

\* strings.Split(s, sep) for a one-character separator: every piece between
\* separators, in order (always at least one piece).
RECURSIVE Split(_, _)
SplitAt(s, sep, i) ==
    IF i > Len(s) THEN <<s>>
    ELSE <<SubSeq(s, 1, i - 1)>> \o Split(SubSeq(s, i + 1, Len(s)), sep)

Split(s, sep) == SplitAt(s, sep, IndexOf(s, sep))

\* Upper-case letters: a Go identifier is exported iff it starts with one.
Upper == {"A", "B", "C", "D", "I", "N", "O", "S", "X", "Y"}

----------------------------------------------------------------------------
(* Types (reflect.Type) *)

IntType == [kind |-> "int"]
StringType == [kind |-> "string"]
StructType(n) == [kind |-> "struct", name |-> n]
PtrTo(t) == [kind |-> "ptr", elem |-> t]
\* reflect.TypeOf(nil): the nil Type, on which every method call panics.
NilType == [kind |-> "invalid"]

\* A struct field: declared name, struct tag (namespace/value pairs, in
\* the order written), whether it is embedded, and its type.
Fld(n, tg, anon, t) == [Name |-> n, Tag |-> tg, Anonymous |-> anon, Type |-> t]

StructNames == {"Person", "Excl", "Suffix", "Collide", "Embed", "EmbedPtr"}

\* The declared fields of each struct type, in declaration order.
Fields(n) ==
    CASE n = "Inner" ->
           << Fld(<<"X">>, << <<"db", <<"x">> >> >>, FALSE, IntType),
              Fld(<<"Y">>, << <<"db", <<"i","y">> >> >>, FALSE, IntType) >>
      [] n = "Person" ->
           << Fld(<<"I","D">>, << <<"db", <<"i","d">> >> >>, FALSE, IntType),
              Fld(<<"N","a","m","e">>,
                  << <<"db", <<"n","a","m","e",",","o","m","i","t","e","m","p","t","y">> >> >>,
                  FALSE, IntType),
              Fld(<<"s","e","c","r","e","t">>, << >>, FALSE, IntType) >>
      [] n = "Excl" ->
           << Fld(<<"S","k","i","p">>, << <<"db", <<"-">> >> >>, FALSE, IntType),
              Fld(<<"B","l","a","n","k">>, << <<"db", << >> >> >>, FALSE, IntType),
              Fld(<<"O","t","h","e","r">>, << <<"json", <<"o">> >> >>, FALSE, IntType) >>
      [] n = "Suffix" ->
           << Fld(<<"O","p","t">>, << <<"db", <<",","o">> >> >>, FALSE, IntType),
              Fld(<<"D","s","h">>, << <<"db", <<"-",",","o">> >> >>, FALSE, IntType),
              Fld(<<"A","l">>, << <<"json", <<"a">> >>, <<"db", <<"O","p","t">> >> >>,
                  FALSE, IntType) >>
      [] n = "Collide" ->
           << Fld(<<"A">>, << <<"db", <<"k">> >> >>, FALSE, IntType),
              Fld(<<"C">>, << <<"db", <<"c">> >> >>, FALSE, IntType),
              Fld(<<"B">>, << <<"db", <<"k",",","x">> >> >>, FALSE, IntType) >>
      [] n = "Embed" ->
           << Fld(<<"I","n","n","e","r">>, << <<"db", <<"i","n">> >> >>, TRUE,
                  StructType("Inner")),
              Fld(<<"Y">>, << <<"db", <<"y">> >> >>, FALSE, IntType) >>
      [] n = "EmbedPtr" ->
           << Fld(<<"I","n","n","e","r">>, << >>, TRUE, PtrTo(StructType("Inner"))),
              Fld(<<"Y">>, << <<"db", <<"y">> >> >>, FALSE, IntType) >>

\* reflect.StructTag.Get: the value of the first pair of the namespace, ""
\* when the tag has none.
TagIndex(tg, key) ==
    CHOOSE i \in 1..(Len(tg) + 1) :
        /\ i = Len(tg) + 1 \/ tg[i][1] = key
        /\ \A j \in 1..(i - 1) : tg[j][1] # key

TagAt(tg, i) == IF i > Len(tg) THEN EmptyStr ELSE tg[i][2]

TagGet(tg, key) == TagAt(tg, TagIndex(tg, key))

\* reflect.StructField.IsExported
IsExported(f) == f.Name[1] \in Upper

\* The struct an embedded field of type t descends into, "" when none.
EmbeddedStruct(t) ==
    IF t.kind = "ptr" /\ t.elem.kind = "struct" THEN t.elem.name
    ELSE IF t.kind = "struct" THEN t.name
    ELSE ""

\* The walk of reflect.VisibleFields: the fields fs of a struct from
\* position i on, each followed by the fields of the struct it embeds, with
\* index paths (prefix is the path of the embedded field descended into).
RECURSIVE Walk(_, _, _)
WalkField(f, ix) ==
    <<[fld |-> f, Index |-> ix]>> \o
        (IF f.Anonymous /\ EmbeddedStruct(f.Type) # ""
         THEN Walk(Fields(EmbeddedStruct(f.Type)), ix, 1)
         ELSE << >>)

Walk(fs, prefix, i) ==
    IF i > Len(fs) THEN << >>
    ELSE WalkField(fs[i], Append(prefix, i)) \o Walk(fs, prefix, i + 1)

\* Every field of struct n and of the structs it embeds, in walk order.
AllFields(n) == Walk(Fields(n), << >>, 1)

\* Whether walked field i is hidden: the same name occurs at a smaller
\* depth, or at the same depth (the two cancel one another out).
Hidden(w, i) ==
    \E j \in 1..Len(w) : /\ j # i
                         /\ w[j].fld.Name = w[i].fld.Name
                         /\ Len(w[j].Index) <= Len(w[i].Index)

RECURSIVE VisibleFrom(_, _)
VisibleFrom(w, i) ==
    IF i > Len(w) THEN << >>
    ELSE (IF Hidden(w, i) THEN << >> ELSE <<w[i]>>) \o VisibleFrom(w, i + 1)

\* reflect.VisibleFields(t): the walked fields that FieldByName can reach,
\* in walk order.
VisibleFields(n) == VisibleFrom(AllFields(n), 1)

----------------------------------------------------------------------------
(* Values *)

\* A pointer value: addr 0 is nil, any other addr is a cell of heap.
NilPtr == [addr |-> 0]
PtrAt(a) == [addr |-> a]

\* heap[RootAddr] is the caller's struct (of type typ); heap[InnerAddr] is
\* an Inner object that an embedded *Inner may point to.
RootAddr == 1
InnerAddr == 2

\* The zero value of a type.
RECURSIVE Zero(_)
ZeroStruct(fs) == [i \in 1..Len(fs) |-> Zero(fs[i].Type)]

Zero(t) ==
    CASE t.kind = "ptr" -> NilPtr
      [] t.kind = "struct" -> ZeroStruct(Fields(t.name))
      [] OTHER -> 0

\* An interface{} holding value v of dynamic type t, and the nil interface.
Iface(t, v) == [type |-> t, val |-> v]
NilIface == [type |-> NilType, val |-> 0]

\* A reflect.Value: a value, the zero Value, or the panic of the call that
\* was to produce it.
Value(v) == [state |-> "ok", val |-> v]
ZeroValue == [state |-> "zero", val |-> 0]
ValuePanic == [state |-> "panic", val |-> 0]

\* reflect.Indirect(reflect.ValueOf(r)): r itself, or what a pointer points
\* to; the zero Value for a nil pointer.
Indirect(h, r) ==
    IF r.type.kind # "ptr" THEN [state |-> "ok", type |-> r.type, val |-> r.val]
    ELSE IF r.val.addr = 0 THEN [state |-> "zero", type |-> NilType, val |-> 0]
    ELSE [state |-> "ok", type |-> r.type.elem, val |-> h[r.val.addr]]

\* reflect.Value.FieldByIndex on struct value v of struct type n: it panics
\* on a nil embedded pointer along the path.
RECURSIVE FieldByIndex(_, _, _, _)
FieldStep(h, f, fv, index) ==
    IF Len(index) = 1 THEN Value(fv)
    ELSE IF f.Type.kind = "ptr"
         THEN IF fv.addr = 0 THEN ValuePanic
              ELSE FieldByIndex(h, f.Type.elem.name, h[fv.addr], Tail(index))
    ELSE FieldByIndex(h, f.Type.name, fv, Tail(index))

FieldByIndex(h, n, v, index) ==
    FieldStep(h, Fields(n)[index[1]], v[index[1]], index)

\* Position in vf of the field called name, 0 when there is none.
NameIndex(vf, name) ==
    CHOOSE i \in 0..Len(vf) :
        \/ i = 0 /\ \A j \in 1..Len(vf) : vf[j].fld.Name # name
        \/ i > 0 /\ vf[i].fld.Name = name

FieldAt(h, n, v, vf, i) ==
    IF i = 0 THEN ZeroValue ELSE FieldByIndex(h, n, v, vf[i].Index)

\* reflect.Value.FieldByName on struct value v of struct type n: the visible
\* field of that name, read through its index path; the zero Value when no
\* visible field has the name.
FieldByNameIn(h, n, v, vf, name) == FieldAt(h, n, v, vf, NameIndex(vf, name))

FieldByName(h, n, v, name) == FieldByNameIn(h, n, v, VisibleFields(n), name)

----------------------------------------------------------------------------
(* struct_record.go *)

\* The zero StructRecord{} returned beside an error.
ZeroRecord == [tagName |-> "", record |-> NilIface, tags |-> << >>,
               tagsToName |-> << >>]

\* ErrNotAStruct, and the nil error.
ErrNotAStruct == "not a struct"
NoErr == "nil"

\* A call that does not return: the goroutine panics.
Panic == [panic |-> TRUE]

\* tagsToName[k] = v on a Go map.
MapPut(m, k, v) == [x \in DOMAIN m \cup {k} |-> IF x = k THEN v ELSE m[x]]

\* extract without the strings.Split: the whole tag value is the key.
TagVal_NoSplit(f, tag) == IF tag # "" THEN TagGet(f.Tag, tag) ELSE f.Name

\* The tagVal of extract: the field name, or under a tag namespace the part
\* of the tag value before the first comma.
TagVal(f, tag) ==
    IF tag # "" THEN Split(TagGet(f.Tag, tag), Comma)[1] ELSE f.Name

\* extract skipping only the empty tag value, not "-".
extractVal_NoDash(f, tag, tagsToName, tagVal) ==
    IF tag # "" /\ tagVal = EmptyStr
    THEN [tags |-> << >>, tagsToName |-> tagsToName]
    ELSE [tags |-> <<tagVal>>, tagsToName |-> MapPut(tagsToName, tagVal, f.Name)]

extractVal(f, tag, tagsToName, tagVal) ==
    IF tag # "" /\ (tagVal = EmptyStr \/ tagVal = Dash)
    THEN [tags |-> << >>, tagsToName |-> tagsToName]
    ELSE [tags |-> <<tagVal>>, tagsToName |-> MapPut(tagsToName, tagVal, f.Name)]

\* extract: the keys field f contributes (none or one) and the updated map.
extract(f, tag, tagsToName) == extractVal(f, tag, tagsToName, TagVal(f, tag))

\* The loop's test without !sf.Anonymous.
Considered_WithEmbedded(sf) == IsExported(sf)

\* Whether the loop of NewStructRecord hands field sf to extract.
Considered(sf) == IsExported(sf) /\ ~sf.Anonymous

\* The loop of NewStructRecord over the visible fields, from position i on.
RECURSIVE ExtractLoop(_, _, _, _, _)
\* The loop prepending what extract returns instead of appending it.
ExtractNext_Prepend(vf, i, tag, tags, e) ==
    ExtractLoop(vf, i + 1, tag, e.tags \o tags, e.tagsToName)

ExtractNext(vf, i, tag, tags, e) ==
    ExtractLoop(vf, i + 1, tag, tags \o e.tags, e.tagsToName)

ExtractLoop(vf, i, tag, tags, tagsToName) ==
    IF i > Len(vf) THEN [tags |-> tags, tagsToName |-> tagsToName]
    ELSE IF Considered(vf[i].fld)
         THEN ExtractNext(vf, i, tag, tags, extract(vf[i].fld, tag, tagsToName))
    ELSE ExtractLoop(vf, i + 1, tag, tags, tagsToName)

\* tagName is variadic: only tagName[0] is used.
TagArg(tagName) == IF Len(tagName) > 0 THEN tagName[1] ELSE ""

\* The type NewStructRecord tests: one pointer level is dereferenced.
Elem(t) == IF t.kind = "ptr" THEN t.elem ELSE t

NewRecord(strct, tag, r) ==
    [tagName |-> tag, record |-> strct, tags |-> r.tags, tagsToName |-> r.tagsToName]

\* NewStructRecord(strct, tagName...): panics on the nil Type, fails with
\* ErrNotAStruct, or returns the adapter.
NewStructRecord(strct, tagName) ==
    IF strct.type.kind = "invalid" THEN Panic
    ELSE IF Elem(strct.type).kind # "struct"
         THEN [panic |-> FALSE, err |-> ErrNotAStruct, rec |-> ZeroRecord]
    ELSE [panic |-> FALSE, err |-> NoErr,
          rec |-> NewRecord(strct, TagArg(tagName),
                            ExtractLoop(VisibleFields(Elem(strct.type).name), 1,
                                        TagArg(tagName), << >>, << >>))]

\* In
In(s) == s.record

\* Value.Interface(): panics on the zero Value.
Interface(f) ==
    IF f.state = "ok" THEN [panic |-> FALSE, val |-> f.val, found |-> TRUE]
    ELSE Panic

\* reflect.Indirect(r).FieldByName(name).Interface() of Get, r indirected.
GetField(h, r, name) ==
    IF r.state # "ok" THEN Panic
    ELSE Interface(FieldByName(h, r.type.name, r.val, name))

\* Get looking the field up by the key instead of the mapped name.
Get_ByKey(s, h, key) ==
    IF key \in DOMAIN s.tagsToName
    THEN GetField(h, Indirect(h, s.record), key)
    ELSE [panic |-> FALSE, val |-> -1, found |-> FALSE]

\* Get
Get(s, h, key) ==
    IF key \in DOMAIN s.tagsToName
    THEN GetField(h, Indirect(h, s.record), s.tagsToName[key])
    ELSE [panic |-> FALSE, val |-> -1, found |-> FALSE]

\* GetKeys
GetKeys(s) == s.tags

\* GetVals: nil (isnil) when a key is not found, else the values in key order.
RECURSIVE GetValsLoop(_, _, _, _)
GetValsStep(s, h, i, vals, g) ==
    IF g.panic THEN Panic
    ELSE IF g.found THEN GetValsLoop(s, h, i + 1, Append(vals, g.val))
    ELSE [panic |-> FALSE, isnil |-> TRUE, vals |-> << >>]

GetValsLoop(s, h, i, vals) ==
    IF i > Len(s.tags) THEN [panic |-> FALSE, isnil |-> FALSE, vals |-> vals]
    ELSE GetValsStep(s, h, i, vals, Get(s, h, s.tags[i]))

GetVals(s, h) == GetValsLoop(s, h, 1, << >>)

----------------------------------------------------------------------------
(* The caller *)

\* The ways the caller passes its first argument to NewStructRecord.
Modes == {"nil", "int", "string", "ptrint", "ptrptr", "value", "ptr", "nilptr"}

\* The variadic tagName arguments tried.
TagNames == { << >>, <<"">>, <<"db">>, <<"json", "db">> }

\* The interface{} value NewStructRecord receives in each mode: a struct
\* passed by value is copied into the interface, a pointer aliases the
\* caller's composite.
Strct(mode, t, h) ==
    CASE mode = "nil" -> NilIface
      [] mode = "int" -> Iface(IntType, 42)
      [] mode = "string" -> Iface(StringType, 0)
      [] mode = "ptrint" -> Iface(PtrTo(IntType), NilPtr)
      [] mode = "ptrptr" -> Iface(PtrTo(PtrTo(StructType(t))), NilPtr)
      [] mode = "value" -> Iface(StructType(t), h[RootAddr])
      [] mode = "ptr" -> Iface(PtrTo(StructType(t)), PtrAt(RootAddr))
      [] mode = "nilptr" -> Iface(PtrTo(StructType(t)), NilPtr)

\* An assignment through index path `index` into struct value v of struct
\* type n: the new struct value and the new heap.
RECURSIVE Store(_, _, _, _, _)
StoreIn(v, i, r) == [val |-> [v EXCEPT ![i] = r.val], heap |-> r.heap]

StoreAt(v, a, r) == [val |-> v, heap |-> [r.heap EXCEPT ![a] = r.val]]

StoreStep(h, f, v, index, x) ==
    IF Len(index) = 1 THEN [val |-> [v EXCEPT ![index[1]] = x], heap |-> h]
    ELSE IF f.Type.kind = "ptr"
         THEN StoreAt(v, v[index[1]].addr,
                      Store(h, f.Type.elem.name, h[v[index[1]].addr], Tail(index), x))
    ELSE StoreIn(v, index[1], Store(h, f.Type.name, v[index[1]], Tail(index), x))

Store(h, n, v, index, x) == StoreStep(h, Fields(n)[index[1]], v, index, x)

\* The caller's composite after the assignment.
Assign(h, n, index, x) ==
    [a \in DOMAIN h |-> IF a = RootAddr THEN Store(h, n, h[RootAddr], index, x).val
                        ELSE Store(h, n, h[RootAddr], index, x).heap[a]]

\* Index paths of the walked fields w of struct n of a given kind that the
\* caller can assign right now (no nil pointer on the way).
AssignableIn(h, n, w, kind) ==
    { w[i].Index : i \in { j \in 1..Len(w) :
          /\ w[j].fld.Type.kind = kind
          /\ FieldByIndex(h, n, h[RootAddr], w[j].Index).state = "ok" } }

Assignable(h, n, kind) == AssignableIn(h, n, AllFields(n), kind)

\* Keys the caller asks Get for: every field name, raw tag value and tag
\* value prefix of the type, and a few that are none of these.
RawTags(w) ==
    UNION { { w[i].fld.Tag[j][2] : j \in 1..Len(w[i].fld.Tag) } : i \in 1..Len(w) }

KeysIn(w) ==
    { w[i].fld.Name : i \in 1..Len(w) } \cup RawTags(w)
        \cup { Split(v, Comma)[1] : v \in RawTags(w) }
        \cup { EmptyStr, Dash, <<"z">> }

KeysOf(n) == KeysIn(AllFields(n))

NoRet == [op |-> "none"]

----------------------------------------------------------------------------
(* Behaviour *)

Init ==
    /\ typ \in StructNames
    /\ heap = [a \in {RootAddr, InnerAddr} |->
                  IF a = RootAddr THEN Zero(StructType(typ)) ELSE Zero(StructType("Inner"))]
    /\ pc = "start"
    /\ arg = [mode |-> "none", tagName |-> << >>]
    /\ sr = ZeroRecord
    /\ ret = NoRet

\* The caller assigns an integer field of its composite, after it built the
\* adapter (the composite is the zero struct when the adapter is built).
Mutate ==
    /\ pc = "built"
    /\ \E index \in Assignable(heap, typ, "int"), x \in 0..MaxVal :
          /\ FieldByIndex(heap, typ, heap[RootAddr], index).val # x
          /\ heap' = Assign(heap, typ, index, x)
    /\ ret' = NoRet
    /\ UNCHANGED <<typ, pc, arg, sr>>

\* The caller sets an embedded pointer of its composite to nil or to the
\* Inner object, before or after it built the adapter.
SetEmbedded ==
    /\ pc \in {"start", "built"}
    /\ \E index \in Assignable(heap, typ, "ptr"), p \in {NilPtr, PtrAt(InnerAddr)} :
          /\ FieldByIndex(heap, typ, heap[RootAddr], index).val # p
          /\ heap' = Assign(heap, typ, index, p)
    /\ ret' = NoRet
    /\ UNCHANGED <<typ, pc, arg, sr>>

\* rec, err := NewStructRecord(strct, tagName...)
New ==
    /\ pc = "start"
    /\ \E mode \in Modes, tagName \in TagNames :
          \E r \in {NewStructRecord(Strct(mode, typ, heap), tagName)} :
              /\ arg' = [mode |-> mode, tagName |-> tagName]
              /\ pc' = IF r.panic THEN "panicked"
                       ELSE IF r.err # NoErr THEN "failed" ELSE "built"
              /\ sr' = IF r.panic THEN sr ELSE r.rec
              /\ ret' = [op |-> "New", res |-> r]
    /\ UNCHANGED <<typ, heap>>

\* rec.In()
CallIn ==
    /\ pc = "built"
    /\ ret' = [op |-> "In", res |-> In(sr)]
    /\ UNCHANGED <<typ, heap, pc, arg, sr>>

\* rec.Get(key)
CallGet ==
    /\ pc = "built"
    /\ \E key \in KeysOf(typ) :
          \E r \in {Get(sr, heap, key)} :
              /\ ret' = [op |-> "Get", key |-> key, res |-> r]
              /\ pc' = IF r.panic THEN "panicked" ELSE pc
    /\ UNCHANGED <<typ, heap, arg, sr>>

\* rec.GetKeys()
CallGetKeys ==
    /\ pc = "built"
    /\ ret' = [op |-> "GetKeys", res |-> GetKeys(sr)]
    /\ UNCHANGED <<typ, heap, pc, arg, sr>>

\* rec.GetVals()
CallGetVals ==
    /\ pc = "built"
    /\ \E r \in {GetVals(sr, heap)} :
          /\ ret' = [op |-> "GetVals", res |-> r]
          /\ pc' = IF r.panic THEN "panicked" ELSE pc
    /\ UNCHANGED <<typ, heap, arg, sr>>

Next ==
    \/ Mutate
    \/ SetEmbedded
    \/ New
    \/ CallIn
    \/ CallGet
    \/ CallGetKeys
    \/ CallGetVals

Spec == Init /\ [][Next]_vars

----------------------------------------------------------------------------
(* What the claims speak of *)

\* NewStructRecord returned an adapter without error (a later Get or
\* GetVals may have panicked since).
HasAdapter == pc = "built" \/ (pc = "panicked" /\ ret.op # "New")

\* The argument was a struct or a pointer, one level, to a struct.
IsStructArg == arg.mode \in {"value", "ptr", "nilptr"}

\* The part of a tag value before its first comma.
Prefix(v) == SubSeq(v, 1, IndexOf(v, Comma) - 1)

\* The key a field is exposed under, and whether the field is included.
ExposedKey(f, tag) == IF tag = "" THEN f.Name ELSE Prefix(TagGet(f.Tag, tag))

IsIncluded(f, tag) ==
    /\ IsExported(f)
    /\ ~f.Anonymous
    /\ tag = "" \/ ExposedKey(f, tag) \notin {EmptyStr, Dash}

\* The visible fields of the wrapped struct type, and the positions in
\* them of the included fields.
VF == VisibleFields(typ)

IncludedAt == { i \in 1..Len(VF) : IsIncluded(VF[i].fld, sr.tagName) }

\* The positions of the included fields exposed under key k, and the last.
ExposedAt(k) == { i \in IncludedAt : ExposedKey(VF[i].fld, sr.tagName) = k }

LastAt(k) == CHOOSE i \in ExposedAt(k) : \A j \in ExposedAt(k) : j <= i

\* The j-th smallest element of a set of positions.
Nth(P, j) == CHOOSE p \in P : Cardinality({ q \in P : q < p }) = j - 1

\* The keys of the included fields, in declaration order.
ExpectedKeys ==
    [j \in 1..Cardinality(IncludedAt) |-> ExposedKey(VF[Nth(IncludedAt, j)].fld, sr.tagName)]

Range(m) == { m[k] : k \in DOMAIN m }

\* A key two or more included fields are exposed under.
Colliding(k) == Cardinality(ExposedAt(k)) >= 2

\* What Get returns for a field read: the value, found.
Found(v) == [panic |-> FALSE, val |-> v, found |-> TRUE]

NotFound == [panic |-> FALSE, val |-> -1, found |-> FALSE]

\* The caller's composite read at the field called name (the Go selector
\* expression instance.name): a reflect.Value.
CallerField(name) == FieldByName(heap, typ, heap[RootAddr], name)

\* The adapter's wrapped record read at the field called name: what the
\* call returns, or Panic.
RecordField(name) == GetField(heap, Indirect(heap, sr.record), name)

----------------------------------------------------------------------------
(* C1 *)

\* C1: NewStructRecord returns an adapter and no error iff the argument is
\* a struct or a pointer to a struct; for every other argument (an integer,
\* a string, nil, a pointer to a non-struct, a pointer to a pointer to a
\* struct) it returns ErrNotAStruct, and it fails in no other way.
C1_BuildIffStruct ==
    ret.op = "New" =>
        /\ ~ret.res.panic
        /\ ret.res.err = NoErr <=> IsStructArg
        /\ ret.res.err # NoErr => ret.res.err = ErrNotAStruct

\* Every argument but the nil interface behaves as C1 says.
C1_ExceptNil ==
    (ret.op = "New" /\ arg.mode # "nil") =>
        /\ ~ret.res.panic
        /\ ret.res.err = NoErr <=> IsStructArg
        /\ ret.res.err # NoErr => ret.res.err = ErrNotAStruct

----------------------------------------------------------------------------
(* C2 *)

\* C2: for every adapter built from a composite, by value or by pointer,
\* Get on the exposed key of a field returns, after any mutation of the
\* caller's composite, the current value of that field (read here as the
\* field the key is mapped to).
C2_LiveRead ==
    (HasAdapter /\ arg.mode \in {"value", "ptr"} /\ ret.op = "Get"
       /\ ret.key \in DOMAIN sr.tagsToName
       /\ CallerField(sr.tagsToName[ret.key]).state = "ok")
    => ret.res = Found(CallerField(sr.tagsToName[ret.key]).val)

\* Whether index path `index` into struct n passes through a pointer.
RECURSIVE ThroughPointer(_, _)
ThroughPointer(n, index) ==
    /\ Len(index) > 1
    /\ \/ Fields(n)[index[1]].Type.kind = "ptr"
       \/ ThroughPointer(Fields(n)[index[1]].Type.name, Tail(index))

\* C2 as amended: for an adapter built from a pointer to the composite,
\* Get on a key returns the current value, in the caller's composite, of
\* the field the key is mapped to, and panics when that field cannot be
\* reached (a nil embedded pointer on its path).  An adapter built from a
\* struct passed by value reads its own copy: for a field not reached
\* through a pointer, Get returns the value the field had at construction
\* (zero here), whatever the caller assigned since.
C2_LiveReadByPointer ==
    /\ (HasAdapter /\ arg.mode = "ptr" /\ ret.op = "Get"
          /\ ret.key \in DOMAIN sr.tagsToName)
       => ret.res = IF CallerField(sr.tagsToName[ret.key]).state = "ok"
                    THEN Found(CallerField(sr.tagsToName[ret.key]).val)
                    ELSE Panic
    /\ (HasAdapter /\ arg.mode = "value" /\ ret.op = "Get"
          /\ ret.key \in DOMAIN sr.tagsToName
          /\ ~ThroughPointer(typ, VF[NameIndex(VF, sr.tagsToName[ret.key])].Index))
       => ret.res = Found(0)

\* An adapter built from a pointer returned a value the caller assigned
\* after building it (the composite was zero when the adapter was built).
C2_Witness ==
    /\ arg.mode = "ptr"
    /\ ret.op = "Get"
    /\ ~ret.res.panic
    /\ ret.res.found
    /\ ret.res.val # 0

----------------------------------------------------------------------------
(* C3 *)

\* C3: on an adapter NewStructRecord returned without error, Get(key) for
\* any key and GetVals() complete normally: they never panic.
C3_NeverPanics ==
    (HasAdapter /\ ret.op \in {"Get", "GetVals"}) => ~ret.res.panic

----------------------------------------------------------------------------
(* C4 *)

\* C4: every key of GetKeys() maps to a field that is exported, is not
\* embedded, and is declared at the immediate level of the wrapped struct
\* type: no field promoted from an embedded struct is a key.
C4_ImmediateLevelOnly ==
    HasAdapter =>
        \A j \in 1..Len(GetKeys(sr)) :
            /\ GetKeys(sr)[j] \in DOMAIN sr.tagsToName
            /\ \E i \in 1..Len(Fields(typ)) :
                  /\ Fields(typ)[i].Name = sr.tagsToName[GetKeys(sr)[j]]
                  /\ IsExported(Fields(typ)[i])
                  /\ ~Fields(typ)[i].Anonymous

\* C4 as amended: every key of GetKeys() maps to a field that is exported,
\* is not itself an embedded field, and is visible in the wrapped struct
\* type: declared at its immediate level, or promoted from a struct it
\* embeds and not hidden by a shallower field of the same name.
C4_VisibleNotEmbedded ==
    HasAdapter =>
        \A j \in 1..Len(GetKeys(sr)) :
            /\ GetKeys(sr)[j] \in DOMAIN sr.tagsToName
            /\ \E i \in 1..Len(AllFields(typ)) :
                  /\ AllFields(typ)[i].fld.Name = sr.tagsToName[GetKeys(sr)[j]]
                  /\ IsExported(AllFields(typ)[i].fld)
                  /\ ~AllFields(typ)[i].fld.Anonymous
                  /\ ~Hidden(AllFields(typ), i)

\* GetKeys() returned a key of a field promoted from the embedded struct.
C4_Witness ==
    /\ HasAdapter
    /\ typ \in {"Embed", "EmbedPtr"}
    /\ ret.op = "GetKeys"
    /\ \E j \in 1..Len(ret.res) : sr.tagsToName[ret.res[j]] = <<"X">>

----------------------------------------------------------------------------
(* C5 *)

\* C5: for every adapter built, in every state of the wrapped value,
\* GetVals() is not nil, is as long as GetKeys(), and its i-th entry is
\* what Get(GetKeys()[i]) returns with found = true.
C5_ValsMatchKeys ==
    (HasAdapter /\ ret.op = "GetVals") =>
        /\ ~ret.res.panic
        /\ ~ret.res.isnil
        /\ Len(ret.res.vals) = Len(GetKeys(sr))
        /\ \A i \in 1..Len(GetKeys(sr)) :
              Get(sr, heap, GetKeys(sr)[i]) = Found(ret.res.vals[i])

\* C5 wherever GetVals() returns; and every key has an entry in the map.
C5_UnlessPanic ==
    /\ HasAdapter => \A i \in 1..Len(GetKeys(sr)) : GetKeys(sr)[i] \in DOMAIN sr.tagsToName
    /\ (HasAdapter /\ ret.op = "GetVals" /\ ~ret.res.panic) =>
          /\ ~ret.res.isnil
          /\ Len(ret.res.vals) = Len(GetKeys(sr))
          /\ \A i \in 1..Len(GetKeys(sr)) :
                Get(sr, heap, GetKeys(sr)[i]) = Found(ret.res.vals[i])

----------------------------------------------------------------------------
(* C6 *)

----------------------------------------------------------------------------
(* C7 *)

\* C7: under a tag namespace, a field whose tag value is not missing, not
\* empty and not exactly "-" is included, under the part of the tag value
\* before its first comma.
C7_TaggedIsIncluded ==
    (HasAdapter /\ sr.tagName # "") =>
        \A i \in 1..Len(VF) :
            (/\ IsExported(VF[i].fld)
             /\ ~VF[i].fld.Anonymous
             /\ TagGet(VF[i].fld.Tag, sr.tagName) \notin {EmptyStr, Dash})
            => /\ Prefix(TagGet(VF[i].fld.Tag, sr.tagName)) \in DOMAIN sr.tagsToName
               /\ \E j \in 1..Len(GetKeys(sr)) :
                     GetKeys(sr)[j] = Prefix(TagGet(VF[i].fld.Tag, sr.tagName))

\* C7 as amended: under a tag namespace, an exported, non-embedded field is
\* included iff the part of its tag value before the first comma is
\* neither empty nor "-", and that part is its key; the text after the
\* comma changes neither.
C7_PrefixDecides ==
    (HasAdapter /\ sr.tagName # "") =>
        /\ Len(GetKeys(sr)) =
              Cardinality({ i \in 1..Len(VF) :
                  /\ IsExported(VF[i].fld)
                  /\ ~VF[i].fld.Anonymous
                  /\ Prefix(TagGet(VF[i].fld.Tag, sr.tagName)) \notin {EmptyStr, Dash} })
        /\ \A i \in 1..Len(VF) :
              (/\ IsExported(VF[i].fld)
               /\ ~VF[i].fld.Anonymous
               /\ Prefix(TagGet(VF[i].fld.Tag, sr.tagName)) \notin {EmptyStr, Dash})
              => /\ Prefix(TagGet(VF[i].fld.Tag, sr.tagName)) \in DOMAIN sr.tagsToName
                 /\ \E j \in 1..Len(GetKeys(sr)) :
                       GetKeys(sr)[j] = Prefix(TagGet(VF[i].fld.Tag, sr.tagName))
        /\ \A k \in DOMAIN sr.tagsToName : \A c \in 1..Len(k) : k[c] # Comma

\* Under "db", Get("name") found the field tagged "name,omitempty".
C7_Witness ==
    /\ HasAdapter
    /\ typ = "Person"
    /\ sr.tagName = "db"
    /\ ret.op = "Get"
    /\ ret.key = <<"n","a","m","e">>
    /\ ~ret.res.panic
    /\ ret.res.found

----------------------------------------------------------------------------
(* C8 *)

\* C8: under a tag namespace, a field with no tag value in it, or with the
\* value "" or "-", is excluded: it adds no key to GetKeys() and no entry
\* to the map, so no Get resolves to it, by its name, by "" or by "-".
C8_Excluded ==
    (HasAdapter /\ sr.tagName # "") =>
        /\ \A i \in 1..Len(VF) :
              TagGet(VF[i].fld.Tag, sr.tagName) \in {EmptyStr, Dash}
                  => VF[i].fld.Name \notin Range(sr.tagsToName)
        /\ Len(GetKeys(sr)) <=
              Cardinality({ i \in 1..Len(VF) :
                  TagGet(VF[i].fld.Tag, sr.tagName) \notin {EmptyStr, Dash} })
        /\ \A k \in {EmptyStr, Dash} :
              /\ k \notin DOMAIN sr.tagsToName
              /\ \A j \in 1..Len(GetKeys(sr)) : GetKeys(sr)[j] # k
              /\ Get(sr, heap, k) = NotFound
        /\ (ret.op = "Get" /\ ~ret.res.panic /\ ret.res.found) =>
              TagGet(VF[NameIndex(VF, sr.tagsToName[ret.key])].fld.Tag, sr.tagName)
                  \notin {EmptyStr, Dash}

\* Under "db", Get on the name of the field tagged "-" found nothing.
C8_Witness ==
    /\ HasAdapter
    /\ typ = "Excl"
    /\ sr.tagName = "db"
    /\ ret.op = "Get"
    /\ ret.key = <<"S","k","i","p">>
    /\ ret.res = NotFound

----------------------------------------------------------------------------
(* C9 *)

\* C9: when two or more included fields yield the same key, construction
\* succeeds, the key is mapped to the last declared of them, and Get(key)
\* returns the current value of that field.
C9_LastDeclaredWins ==
    (IsStructArg /\ pc # "start" /\ \E k \in KeysOf(typ) : Colliding(k)) =>
        /\ HasAdapter
        /\ \A k \in KeysOf(typ) :
              Colliding(k) => sr.tagsToName[k] = VF[LastAt(k)].fld.Name
        /\ (ret.op = "Get" /\ Colliding(ret.key)) =>
              /\ ~ret.res.panic
              /\ ret.res = RecordField(VF[LastAt(ret.key)].fld.Name)

\* C9 wherever Get returns.
C9_UnlessPanic ==
    (IsStructArg /\ pc # "start" /\ \E k \in KeysOf(typ) : Colliding(k)) =>
        /\ HasAdapter
        /\ \A k \in KeysOf(typ) :
              Colliding(k) => sr.tagsToName[k] = VF[LastAt(k)].fld.Name
        /\ (ret.op = "Get" /\ Colliding(ret.key) /\ ~ret.res.panic) =>
              ret.res = RecordField(VF[LastAt(ret.key)].fld.Name)

----------------------------------------------------------------------------
(* C10 *)

\* C10: GetKeys() has one entry per included field: a key n included
\* fields yield occurs n times in it, GetVals() holds the value of the last
\* declared of them at each of these positions, and the values of the
\* earlier ones appear nowhere in GetVals().
C10_OneEntryPerField ==
    (HasAdapter /\ \E k \in KeysOf(typ) : Colliding(k)) =>
        /\ Len(GetKeys(sr)) = Cardinality(IncludedAt)
        /\ Len(GetKeys(sr)) > Cardinality(DOMAIN sr.tagsToName)
        /\ \A k \in KeysOf(typ) :
              Cardinality({ j \in 1..Len(GetKeys(sr)) : GetKeys(sr)[j] = k })
                  = Cardinality(ExposedAt(k))
        /\ ret.op = "GetVals" =>
              /\ ~ret.res.panic
              /\ \A j \in 1..Len(GetKeys(sr)) :
                    Found(ret.res.vals[j]) =
                        RecordField(VF[LastAt(GetKeys(sr)[j])].fld.Name)

\* C10 wherever GetVals() returns.
C10_UnlessPanic ==
    (HasAdapter /\ \E k \in KeysOf(typ) : Colliding(k)) =>
        /\ Len(GetKeys(sr)) = Cardinality(IncludedAt)
        /\ Len(GetKeys(sr)) > Cardinality(DOMAIN sr.tagsToName)
        /\ \A k \in KeysOf(typ) :
              Cardinality({ j \in 1..Len(GetKeys(sr)) : GetKeys(sr)[j] = k })
                  = Cardinality(ExposedAt(k))
        /\ (ret.op = "GetVals" /\ ~ret.res.panic) =>
              \A j \in 1..Len(GetKeys(sr)) :
                  Found(ret.res.vals[j]) =
                      RecordField(VF[LastAt(GetKeys(sr)[j])].fld.Name)

====
